---- MODULE Spec2Model ----
(***************************************************************************)
(* Model of the agent proxy of hoopie-infra                                *)
(* (backend/end-points/agent_call.py): the process-global session map,     *)
(* the one-shot agent discovery at import time, and the /query,            *)
(* /clear-session, /health and /sessions handlers.                         *)
(*                                                                         *)
(* The handlers are "async def" coroutines that contain no await: the      *)
(* remote calls (create_session, stream_query) are blocking calls made on  *)
(* the event loop, and uvicorn.run starts one process.  A handler          *)
(* therefore runs from its first line to its return or raise before the    *)
(* loop starts another one, and each handler is one atomic action here.    *)
(* Concurrent requests are requests the loop serves in some order.         *)
(*                                                                         *)
(* Python strings are TLA+ strings.  None is the string None below, which  *)
(* no input set contains as an ordinary value.                             *)
(***************************************************************************)
EXTENDS Integers, Sequences, FiniteSets, TLC

\* ------------------------------------------------------------------ bounds

\* int(time.time()) takes the values 0..MaxTime.
MaxTime == 1
\* uuid.uuid4() is called at most MaxUuid times.
MaxUuid == 2
\* At most MaxTasks scheduled deletions wait to be run.
MaxTasks == 1

\* ------------------------------------------------------------ Python values

None == "None"

\* bool(s) of an Optional[str].
Truthy(s) == s # None /\ s # ""

\* a or b
Or(a, b) == IF Truthy(a) THEN a ELSE b

\* d.values() of a dict modelled as a function.
Values(d) == {d[k] : k \in DOMAIN d}

\* del d[k]
Del(d, k) == [j \in (DOMAIN d) \ {k} |-> d[j]]

\* Mutant of Put: the dict is replaced by one that holds the new entry only.
Put_Reset(d, k, v) == [j \in {k} |-> v]

\* d[k] = v
Put(d, k, v) == [j \in (DOMAIN d) \cup {k} |-> IF j = k THEN v ELSE d[j]]

\* {}
EmptyDict == [k \in {} |-> None]

\* ------------------------------------------------------------------ inputs

\* What int(time.time()) can return.  time.time() is the wall clock, which
\* may be set back between two calls: each call returns any of the values.
Times == 0..MaxTime

\* QueryRequest.userId (a required str)
UserIds == {"u1"}
\* QueryRequest.firebaseUid (Optional, default None)
FirebaseUids == {None, "f1"}
\* QueryRequest.message
Messages == {"hi"}
\* A client-supplied session id that the proxy never issued.
BogusId == "bogus"
\* str(e) of the exception a failing create_session / stream_query raises.
CreateError == "quota exceeded"
StreamError == "stream reset"
\* The keys of a /clear-session body: each present with a value, or missing
\* (request.get gives None).
ClearUserIds == UserIds \cup {None}
ClearFirebaseUids == FirebaseUids

\* ------------------------------------------------- the upstream agent service

\* An entry of agent_engines.list(): its resource name as path segments, and
\* its creation time.
Agent(id, t) == [name |-> <<"reasoningEngines", id>>, create_time |-> t]

\* remote_app = None
NoAgent == [name |-> <<>>, create_time |-> 0]

\* What agent_engines.list(filter=display_name) can answer at startup.
AgentLists ==
    { <<>>,
      <<Agent("e2", 2)>>,
      <<Agent("e1", 1), Agent("e2", 2)>>,
      <<Agent("e2", 2), Agent("e1", 1)>>,
      <<Agent("e2", 2), Agent("e3", 2)>> }

\* A create_session response.  attr_id is the value of its attribute id,
\* key_id the value of its key "id" when it is a dict, attr_output_id and
\* key_output_id the same for output.id; None where the response has no such
\* attribute or key.  repr is str(response).
SessionResponse(isdict, a, k, ao, ko, r) ==
    [is_dict |-> isdict, attr_id |-> a, key_id |-> k,
     attr_output_id |-> ao, key_output_id |-> ko, repr |-> r]

\* The create_session responses the upstream gives in the router model.
CreateResponses ==
    { SessionResponse(FALSE, "v1", None, None, None, "obj"),
      SessionResponse(TRUE, None, "v2", None, None, "dict") }

\* create_session responses of every shape the if/elif chain tells apart: an
\* object with or without id and with or without output.id, a dict with or
\* without the keys id and output.id.
ResponseShapes ==
    { SessionResponse(FALSE, a, None, ao, None, "obj") :
        a \in {None, "a"}, ao \in {None, "ao"} }
    \cup { SessionResponse(TRUE, None, k, None, ko, "dict") :
             k \in {None, "k"}, ko \in {None, "ko"} }

\* What a create_session call does in the response shape model.
ShapeOutcomes ==
    { [raises |-> FALSE, response |-> r] : r \in ResponseShapes }

\* What a create_session call does: raise, or answer with a response.
CreateOutcomes ==
    { [raises |-> TRUE, response |-> SessionResponse(FALSE, None, None, None, None, "")] }
    \cup { [raises |-> FALSE, response |-> r] : r \in CreateResponses }

\* A streamed event.  cls is "obj" (attributes), "dict" (keys) or "str";
\* text is the text attribute or key, None when the event has none; content
\* is "absent", "parts" (has a parts list), "str" (a plain string, in cstr) or
\* "bare" (an object without parts); a part is its text, or None when the part
\* has no text; repr is str(event).
Event(cls, text, content, parts, cstr, repr) ==
    [cls |-> cls, text |-> text, content |-> content, parts |-> parts,
     cstr |-> cstr, repr |-> repr]

TextObjEvent == Event("obj", "hi", "absent", <<>>, "", "E")
PartsDictEvent == Event("dict", None, "parts", <<"a", "b">>, "", "{..}")

\* A stream_query run: the events it yields, then whether it raises.
Stream(events, raises) == [events |-> events, raises |-> raises]

\* The stream_query runs the upstream gives in the router model.
Streams ==
    { Stream(<<>>, FALSE),
      Stream(<<PartsDictEvent>>, FALSE),
      Stream(<<TextObjEvent>>, TRUE) }

\* Events of every shape the for loop tells apart.
\* An object with a text attribute and a content with parts.
TextAndPartsObjEvent == Event("obj", "T", "parts", <<"p">>, "", "E1")
\* An object with content.parts, the second part without text.
PartsObjEvent == Event("obj", None, "parts", <<"x", None, "y">>, "", "E2")
\* An object with neither text nor content.parts.
BareObjEvent == Event("obj", None, "bare", <<>>, "", "E3")
\* {"text": "hi"}
TextDictEvent == Event("dict", "hi", "absent", <<>>, "", "{'text': 'hi'}")
\* {"text": "t", "content": {"parts": [{"text": "q"}]}}
TextAndPartsDictEvent == Event("dict", "t", "parts", <<"q">>, "", "{t,q}")
\* {"content": "raw"}
RawDictEvent == Event("dict", None, "str", <<>>, "raw", "{'content': 'raw'}")
\* {"content": {"parts": [{}]}}: a part without text.
NoTextPartsDictEvent == Event("dict", None, "parts", <<None>>, "", "{[{}]}")
\* {}
EmptyDictEvent == Event("dict", None, "absent", <<>>, "", "{}")
\* A plain string.
StrEvent == Event("str", None, "absent", <<>>, "", "plain")

EventShapes ==
    { TextObjEvent, TextAndPartsObjEvent, PartsObjEvent, BareObjEvent,
      TextDictEvent, TextAndPartsDictEvent, PartsDictEvent, RawDictEvent,
      NoTextPartsDictEvent, EmptyDictEvent, StrEvent }

\* The stream_query runs the upstream gives in the event text model: no
\* event, one event of each shape, several events, and a run that raises
\* after an event.
TextStreams ==
    { Stream(<<>>, FALSE) }
    \cup { Stream(<<e>>, FALSE) : e \in EventShapes }
    \cup { Stream(<<TextDictEvent, PartsDictEvent, RawDictEvent>>, FALSE),
           Stream(<<PartsObjEvent, StrEvent>>, FALSE),
           Stream(<<NoTextPartsDictEvent, NoTextPartsDictEvent>>, FALSE),
           Stream(<<TextDictEvent>>, TRUE) }

\* ------------------------------------------------------------------- state

VARIABLES
    phase,           \* "init", "discover" (module import), then "serving"
    VERTEX_AI_READY, \* the module globals of agent_call.py
    AGENT_READY,
    AGENT_ID,
    remote_app,
    sessions,        \* dict: caller key -> session id
    uuids,           \* number of uuid.uuid4() calls made so far
    last,            \* the operation run last and what it did
    removed          \* the entry the latest /clear-session deleted

\* The Firebase security module (end-points/security/ui_firebase.py).
VARIABLES
    ENVIRONMENT,      \* os.getenv("ENVIRONMENT", "dev")
    PROJECT_ID,       \* os.getenv("GOOGLE_CLOUD_PROJECT", "hoopie-dev")
    auth_users,       \* the Firebase Auth user store: uid -> user record
    background_tasks, \* the deletions scheduled and not yet run
    sec_last          \* the security request handled last and its answer

security_vars == <<ENVIRONMENT, PROJECT_ID, auth_users, background_tasks,
                   sec_last>>

\* The ServiceNow MCP server's authentication (servicenow_mcp/server_sse.py).
VARIABLES
    bearer_token,     \* os.getenv("MCP_BEARER_TOKEN")
    mcp_last          \* the HTTP request received last and what became of it

mcp_vars == <<bearer_token, mcp_last>>

\* The incident tools (servicenow_mcp/tools/incident_tools.py).
VARIABLES
    tool_last         \* the tool called last, the HTTP requests it sent and
                      \* what it returned

tools_vars == <<tool_last>>

\* The incident helpers (servicenow_mcp/tools/incident_constants.py), applied
\* to one incident record.
VARIABLES
    inc_state,        \* the state of the incident
    inc_changes,      \* the number of state changes made so far
    inc_last,         \* the state change asked for last and its outcome
    data_last         \* the incident data validated last and the outcome

incident_vars == <<inc_state, inc_changes, inc_last, data_last>>

\* The variables of the agent proxy.
proxy_vars == <<phase, VERTEX_AI_READY, AGENT_READY, AGENT_ID, remote_app,
                sessions, uuids, last, removed>>

\* The variables of the services other than the agent proxy.
services == <<security_vars, mcp_vars, tools_vars, incident_vars>>

\* The variables a step of one service leaves alone.
outside_security == <<proxy_vars, mcp_vars, tools_vars, incident_vars>>
outside_mcp == <<proxy_vars, security_vars, tools_vars, incident_vars>>
outside_tools == <<proxy_vars, security_vars, mcp_vars, incident_vars>>
outside_incident == <<proxy_vars, security_vars, mcp_vars, tools_vars>>

vars == <<proxy_vars, services>>

globals == <<VERTEX_AI_READY, AGENT_READY, AGENT_ID, remote_app>>

\* The record kept in last.
\* The request: op, userId, firebaseUid, sessionId; key is the key the
\* handler derived, had_entry whether the dict held that key when the handler
\* started.
\* The handler's run: local_sid and created are what get_or_create_session
\* returned; create_calls and stream_calls count the remote calls;
\* create_raised and stream_raised tell whether the call raised; remote_sid
\* is vertex_session_id as read off the create_session response, which is
\* create_response;
\* stream_session is the session_id argument of stream_query, events the
\* events the for loop took from stream_query.
\* For op = "discover": list_calls counts the agent_engines.list calls,
\* list_raised tells whether the call raised, listed is what it answered.
\* The answer: status (HTTP), and the body's text (message for
\* /clear-session), session_id, session_created, cleared_session, or detail
\* for an HTTPException; vertex_ai_ready and agent_ready for /health,
\* sessions and session_count for /sessions.
NoRequest ==
    [op |-> "none", userId |-> None, firebaseUid |-> None,
     sessionId |-> None, key |-> None, had_entry |-> FALSE,
     local_sid |-> None, created |-> FALSE,
     create_calls |-> 0, create_raised |-> FALSE, remote_sid |-> None,
     create_response |-> SessionResponse(FALSE, None, None, None, None, ""),
     stream_calls |-> 0, stream_raised |-> FALSE, stream_session |-> None,
     events |-> <<>>,
     list_calls |-> 0, list_raised |-> FALSE, listed |-> <<>>,
     vertex_ai_ready |-> FALSE, agent_ready |-> FALSE,
     sessions |-> EmptyDict, session_count |-> 0,
     status |-> 0, text |-> None, session_id |-> None,
     session_created |-> FALSE, cleared_session |-> None, detail |-> None]

\* No entry has been deleted yet.
NoEntry == [key |-> None, sid |-> None]

\* ----------------------------------- the security module's values and state

\* An email address: the text before and after its last "@".
Email(local, domain) == [local |-> local, domain |-> domain]
\* email is None
NoEmail == Email(None, None)

\* A Firebase user record: its email and the provider ids of provider_data.
UserRecord(email, providers) == [email |-> email, providers |-> providers]
\* No record (auth.get_user was not called or raised UserNotFoundError).
NoUser == UserRecord(NoEmail, <<>>)

\* The users Firebase Auth holds when the service starts: a Google user of
\* an allowed domain, a Google user of another domain, and a password user.
InitialUsers ==
    [uid \in {"g1", "g2", "p1"} |->
       CASE uid = "g1" -> UserRecord(Email("a", "U-Factor.io"),
                                     <<"password", "google.com">>)
         [] uid = "g2" -> UserRecord(Email("c", "gmail.com"), <<"google.com">>)
         [] uid = "p1" -> UserRecord(Email("b", "deloitte.pt"), <<"password">>)]

\* The values of the two environment variables.
Environments == {"dev", "Prod"}
ProjectIds == {"hoopie-dev", "hoopie-prod"}

\* The record kept in sec_last.  The request: op, uid, email.  The handler's
\* run: get_user_calls counts the auth.get_user calls, user_record is what
\* the call returned, scheduled whether background_tasks.add_task was
\* called, deleted the uid auth.delete_user removed (None if none),
\* auth_calls the number of Firebase Auth calls made.  The answer:
\* status (HTTP), the body's status and reason, detail for an HTTPException,
\* and the three counts of validate-all.
NoSecRequest ==
    [op |-> "none", uid |-> None, email |-> NoEmail,
     get_user_calls |-> 0, user_record |-> NoUser, scheduled |-> FALSE,
     deleted |-> None, auth_calls |-> 0,
     status |-> 0, body_status |-> None, reason |-> None, detail |-> None,
     authorized |-> 0, unauthorized |-> 0, non_google |-> 0]

\* The security module as it is when nothing has called it, with the default
\* environment.
SecurityIdle ==
    /\ ENVIRONMENT = "dev"
    /\ PROJECT_ID = "hoopie-dev"
    /\ auth_users = InitialUsers
    /\ background_tasks = <<>>
    /\ sec_last = NoSecRequest

\* ------------------------------------- the other services' values and state

\* An Authorization header: its first seven characters and the rest.
Header(prefix, rest) == [prefix |-> prefix, rest |-> rest]
\* request.headers.get("Authorization") is None
NoHeader == Header(None, None)

\* The record kept in mcp_last: the request's path and Authorization header,
\* whether call_next was called, and the status and error of the answer the
\* middleware gave itself (0 and None when it gave none).
NoMcpRequest ==
    [path |-> None, header |-> NoHeader, forwarded |-> FALSE,
     status |-> 0, error |-> None]

\* The MCP server as it is when no token is configured and nothing has
\* called it.
McpIdle ==
    /\ bearer_token = None
    /\ mcp_last = NoMcpRequest

\* The record kept in tool_last.  The call: op and incident_id (a string as
\* the sequence of its characters).  The run: get_calls and put_calls count
\* the requests sent, get_number is the number asked for, lookup what the GET
\* did ("error", "empty", "found" or "none"), found_sys_id the sys_id of its
\* first result, put_target the last path segment of the PUT url.  The
\* answer: success and message.
NoToolCall ==
    [op |-> "none", incident_id |-> <<>>,
     get_calls |-> 0, get_number |-> <<>>, lookup |-> "none",
     found_sys_id |-> <<>>,
     put_calls |-> 0, put_target |-> <<>>,
     success |-> FALSE, message |-> None]

ToolsIdle == tool_last = NoToolCall

\* The record kept in inc_last: the state change asked for, what
\* is_valid_state_transition said, and what get_next_recommended_states
\* gave for the state the incident was in.
NoTransition ==
    [from |-> None, to |-> None, valid |-> FALSE, recommended |-> <<>>]

\* The record kept in data_last: the fields of the incident data that
\* validate_incident_data reads, expected_priority as calculate_priority
\* gave it (None if it was not called), and the issues returned.
NoData ==
    [op |-> "none", short_description |-> None, state |-> None,
     impact |-> None, urgency |-> None, priority |-> None,
     expected_priority |-> None, issues |-> <<>>]

\* A new incident on which no helper has been called.
IncidentIdle ==
    /\ inc_state = "1"
    /\ inc_changes = 0
    /\ inc_last = NoTransition
    /\ data_last = NoData

\* ------------------------------------------------------ the proxy's start

\* The agent proxy before its module is imported.
ProxyInit ==
    /\ phase = "init"
    /\ VERTEX_AI_READY = FALSE
    /\ AGENT_READY = FALSE
    /\ AGENT_ID = None
    /\ remote_app = NoAgent
    /\ sessions = EmptyDict
    /\ uuids = 0
    /\ last = NoRequest
    /\ removed = NoEntry

Init ==
    /\ ProxyInit
    /\ SecurityIdle
    /\ McpIdle
    /\ ToolsIdle
    /\ IncidentIdle

\* ----------------------------------------------------------------- startup

\* initialize_vertexAI(): vertexai.init either returns or raises.
initialize_vertexAI(ok) ==
    /\ phase = "init"
    /\ VERTEX_AI_READY' = ok
    /\ phase' = "discover"
    /\ UNCHANGED <<AGENT_READY, AGENT_ID, remote_app, sessions, uuids, last,
                   removed, services>>

\* Inserts a into the list s already sorted by create_time, newest first,
\* after every element that is not older than a.
RECURSIVE InsertByRecency(_, _)
InsertByRecency(s, a) ==
    IF s = <<>> THEN <<a>>
    ELSE IF Head(s).create_time >= a.create_time
         THEN <<Head(s)>> \o InsertByRecency(Tail(s), a)
         ELSE <<a>> \o s

\* ae_apps.sort(key=lambda x: x.create_time, reverse=True): a stable sort.
RECURSIVE SortByRecency(_)
SortByRecency(apps) ==
    IF apps = <<>> THEN <<>>
    ELSE InsertByRecency(SortByRecency(SubSeq(apps, 1, Len(apps) - 1)),
                         apps[Len(apps)])

\* remote_app.name.split('/')[-1]
AgentIdOf(app) == app.name[Len(app.name)]

\* Mutant of LatestAgent: the list is not sorted, its first entry is taken.
LatestAgent_Unsorted(ae_apps) == ae_apps[1]

\* ae_apps.sort(key=..., reverse=True); remote_app = ae_apps[0]
LatestAgent(ae_apps) == SortByRecency(ae_apps)[1]

\* Mutant of discover_latest_agent: discovery also runs while the process
\* serves, as a refresh.
discover_latest_agent_Refresh(raises, listed) ==
    /\ phase \in {"discover", "serving"}
    /\ phase' = "serving"
    /\ IF ~VERTEX_AI_READY
       THEN /\ last' = [NoRequest EXCEPT !.op = "discover"]
            /\ UNCHANGED <<AGENT_READY, AGENT_ID, remote_app>>
       ELSE IF raises
       THEN /\ last' = [NoRequest EXCEPT !.op = "discover", !.list_calls = 1,
                                         !.list_raised = TRUE]
            /\ AGENT_READY' = FALSE
            /\ UNCHANGED <<AGENT_ID, remote_app>>
       ELSE /\ last' = [NoRequest EXCEPT !.op = "discover", !.list_calls = 1,
                                         !.listed = listed]
            /\ IF listed # <<>>
               THEN /\ remote_app' = LatestAgent(listed)
                    /\ AGENT_READY' = TRUE
                    /\ AGENT_ID' = AgentIdOf(remote_app')
               ELSE UNCHANGED <<AGENT_READY, AGENT_ID, remote_app>>
    /\ UNCHANGED <<VERTEX_AI_READY, sessions, uuids, removed, services>>

\* discover_latest_agent(): returns at once when Vertex AI is not ready;
\* otherwise agent_engines.list raises, or answers listed.  The module goes
\* on to build the app whatever happened.
discover_latest_agent(raises, listed) ==
    /\ phase = "discover"
    /\ phase' = "serving"
    /\ IF ~VERTEX_AI_READY
       THEN /\ last' = [NoRequest EXCEPT !.op = "discover"]
            /\ UNCHANGED <<AGENT_READY, AGENT_ID, remote_app>>
       ELSE IF raises
       THEN /\ last' = [NoRequest EXCEPT !.op = "discover", !.list_calls = 1,
                                         !.list_raised = TRUE]
            /\ AGENT_READY' = FALSE
            /\ UNCHANGED <<AGENT_ID, remote_app>>
       ELSE /\ last' = [NoRequest EXCEPT !.op = "discover", !.list_calls = 1,
                                         !.listed = listed]
            /\ IF listed # <<>>
               THEN /\ remote_app' = LatestAgent(listed)
                    /\ AGENT_READY' = TRUE
                    /\ AGENT_ID' = AgentIdOf(remote_app')
               ELSE UNCHANGED <<AGENT_READY, AGENT_ID, remote_app>>
    /\ UNCHANGED <<VERTEX_AI_READY, sessions, uuids, removed, services>>

\* ---------------------------------------------------------------- sessions

\* Mutant of NewSessionId: the id is made of the key and the second only.
NewSessionId_NoUuid(user_id, t, n) ==
    "session_" \o user_id \o "_" \o ToString(t)

\* f"session_{user_id}_{int(time.time())}_{str(uuid.uuid4())[:8]}".  The
\* n-th uuid4 of the process is written n: uuid4 draws are taken to be
\* pairwise distinct in their first 8 hex digits.
NewSessionId(user_id, t, n) ==
    "session_" \o user_id \o "_" \o ToString(t) \o "_" \o ToString(n)

\* Mutant of get_or_create_session: the lookup of user_id is missing, a new id
\* is made whenever the provided id is not tracked.
get_or_create_session_AlwaysNew(d, user_id, provided_session_id, t, n) ==
    IF Truthy(provided_session_id) /\ provided_session_id \in Values(d)
    THEN [sid |-> provided_session_id, created |-> FALSE, sessions |-> d]
    ELSE [sid |-> NewSessionId(user_id, t, n + 1), created |-> TRUE,
          sessions |-> Put(d, user_id, NewSessionId(user_id, t, n + 1))]

\* Mutant of get_or_create_session: the user's own entry is looked up before
\* the provided id.
get_or_create_session_KeyFirst(d, user_id, provided_session_id, t, n) ==
    IF user_id \in DOMAIN d
    THEN [sid |-> d[user_id], created |-> FALSE, sessions |-> d]
    ELSE IF Truthy(provided_session_id) /\ provided_session_id \in Values(d)
    THEN [sid |-> provided_session_id, created |-> FALSE, sessions |-> d]
    ELSE [sid |-> NewSessionId(user_id, t, n + 1), created |-> TRUE,
          sessions |-> Put(d, user_id, NewSessionId(user_id, t, n + 1))]

\* Mutant of get_or_create_session: an id the dict does not track is adopted
\* as the new id of a key without entry.
get_or_create_session_AdoptsProvided(d, user_id, provided_session_id, t, n) ==
    IF Truthy(provided_session_id) /\ provided_session_id \in Values(d)
    THEN [sid |-> provided_session_id, created |-> FALSE, sessions |-> d]
    ELSE IF user_id \in DOMAIN d
    THEN [sid |-> d[user_id], created |-> FALSE, sessions |-> d]
    ELSE IF Truthy(provided_session_id)
    THEN [sid |-> provided_session_id, created |-> TRUE,
          sessions |-> Put(d, user_id, provided_session_id)]
    ELSE [sid |-> NewSessionId(user_id, t, n + 1), created |-> TRUE,
          sessions |-> Put(d, user_id, NewSessionId(user_id, t, n + 1))]

\* get_or_create_session(user_id, provided_session_id) run on the dict d at
\* time t after n uuid4 calls: the pair it returns and the dict it leaves.
get_or_create_session(d, user_id, provided_session_id, t, n) ==
    IF Truthy(provided_session_id) /\ provided_session_id \in Values(d)
    THEN [sid |-> provided_session_id, created |-> FALSE, sessions |-> d]
    ELSE IF user_id \in DOMAIN d
    THEN [sid |-> d[user_id], created |-> FALSE, sessions |-> d]
    ELSE [sid |-> NewSessionId(user_id, t, n + 1), created |-> TRUE,
          sessions |-> Put(d, user_id, NewSessionId(user_id, t, n + 1))]

\* Mutant of VertexSessionId: the nested output.id is looked for before the
\* id of the response itself.
VertexSessionId_OutputFirst(r) ==
    IF r.attr_output_id # None THEN r.attr_output_id
    ELSE IF r.is_dict /\ r.key_output_id # None THEN r.key_output_id
    ELSE IF r.attr_id # None THEN r.attr_id
    ELSE IF r.is_dict /\ r.key_id # None THEN r.key_id
    ELSE r.repr

\* The if/elif chain that reads the session id off a create_session
\* response.
VertexSessionId(r) ==
    IF r.attr_id # None THEN r.attr_id
    ELSE IF r.is_dict /\ r.key_id # None THEN r.key_id
    ELSE IF r.attr_output_id # None THEN r.attr_output_id
    ELSE IF r.is_dict /\ r.key_output_id # None THEN r.key_output_id
    ELSE r.repr

\* ------------------------------------------------------------- event text

RECURSIVE PartsText(_)
\* for part in parts: if the part has text: response_text += part.text
PartsText(parts) ==
    IF parts = <<>> THEN ""
    ELSE (IF Head(parts) # None THEN Head(parts) ELSE "")
         \o PartsText(Tail(parts))

\* What one event adds to response_text.
EventText(e) ==
    IF e.cls = "obj" /\ e.text # None THEN e.text
    ELSE IF e.cls = "obj" /\ e.content = "parts" THEN PartsText(e.parts)
    ELSE IF e.cls = "dict"
    THEN IF e.text # None THEN e.text
         ELSE IF e.content = "parts" THEN PartsText(e.parts)
         ELSE IF e.content # "absent" THEN e.cstr
         ELSE ""
    ELSE e.repr

RECURSIVE CollectText(_)
\* Mutant of CollectText: the loop is left after the first event.
CollectText_FirstOnly(events) ==
    IF events = <<>> THEN "" ELSE EventText(Head(events))

\* response_text after the for loop has consumed events.
CollectText(events) ==
    IF events = <<>> THEN ""
    ELSE EventText(Head(events)) \o CollectText(Tail(events))

NoTextResponse == "Agent processed your message but returned no text response."

\* Mutant of ResponseText: the placeholder is not filled in.
ResponseText_NoPlaceholder(events) == CollectText(events)

\* if not response_text: response_text = "Agent processed ..."
ResponseText(events) ==
    IF CollectText(events) = "" THEN NoTextResponse ELSE CollectText(events)

MockText(message, userId) ==
    "[MOCK] Agent not ready. Mock response to: '" \o message
        \o "' from user " \o userId

\* ---------------------------------------------------------------- handlers

\* session_key = request.firebaseUid or request.userId
SessionKey(userId, firebaseUid) == Or(firebaseUid, userId)

\* if not AGENT_READY or remote_app is None
AgentNotReady == ~AGENT_READY \/ remote_app = NoAgent

\* Mutant of CallsCreateSession: a remote session is created only when the
\* local one was.
CallsCreateSession_OnlyWhenCreated(session_created, sessionId) ==
    session_created

\* if session_created or not request.sessionId
CallsCreateSession(session_created, sessionId) ==
    session_created \/ ~Truthy(sessionId)

\* Mutant of MockAnswer: the mock answer is given without the dict having been
\* written.
MockAnswer_Unrecorded(request, g, message) ==
    [sessions |-> sessions,
     last |-> [request EXCEPT
                 !.status = 200,
                 !.text = MockText(message, request.userId),
                 !.session_id = g.sid,
                 !.session_created = g.created]]

\* The mock answer: the handler returns before any remote call.
MockAnswer(request, g, message) ==
    [sessions |-> g.sessions,
     last |-> [request EXCEPT
                 !.status = 200,
                 !.text = MockText(message, request.userId),
                 !.session_id = g.sid,
                 !.session_created = g.created]]

\* Mutant of CreateFailedAnswer: the failure handler drops the caller's entry.
CreateFailedAnswer_Rollback(request, g) ==
    [sessions |-> Del(g.sessions, request.key),
     last |-> [request EXCEPT
                 !.create_calls = 1,
                 !.create_raised = TRUE,
                 !.status = 500,
                 !.detail = "Failed to create session: " \o CreateError]]

\* Mutant of CreateFailedAnswer: create_session is tried a second time before
\* the failure is reported.
CreateFailedAnswer_Retry(request, g) ==
    [sessions |-> g.sessions,
     last |-> [request EXCEPT
                 !.create_calls = 2,
                 !.create_raised = TRUE,
                 !.status = 500,
                 !.detail = "Failed to create session: " \o CreateError]]

\* except Exception as e, around create_session: the HTTPException leaves
\* the handler, nothing else runs.
CreateFailedAnswer(request, g) ==
    [sessions |-> g.sessions,
     last |-> [request EXCEPT
                 !.create_calls = 1,
                 !.create_raised = TRUE,
                 !.status = 500,
                 !.detail = "Failed to create session: " \o CreateError]]

\* Mutant of CreateSucceeded: the remote id is used but not stored.
CreateSucceeded_NotStored(request, g, response) ==
    [vertex_session_id |-> VertexSessionId(response),
     sessions |-> g.sessions,
     session_id |-> VertexSessionId(response),
     request |-> [request EXCEPT
                    !.create_calls = 1,
                    !.remote_sid = VertexSessionId(response)]]

\* The try block around create_session when the call returns response:
\* vertex_session_id, sessions[session_key] and session_id after it.
CreateSucceeded(request, g, response) ==
    [vertex_session_id |-> VertexSessionId(response),
     sessions |-> Put(g.sessions, request.key, VertexSessionId(response)),
     session_id |-> VertexSessionId(response),
     request |-> [request EXCEPT
                    !.create_calls = 1,
                    !.create_response = response,
                    !.remote_sid = VertexSessionId(response)]]

\* The else branch: vertex_session_id = session_id, nothing is stored.
UseExisting(request, g) ==
    [vertex_session_id |-> g.sid,
     sessions |-> g.sessions,
     session_id |-> g.sid,
     request |-> request]

\* Mutant of StreamAnswer: when stream_query raises, the text accumulated so
\* far is returned.
StreamAnswer_Partial(c, g, stream) ==
    [sessions |-> c.sessions,
     last |-> [c.request EXCEPT
                 !.stream_calls = 1,
                 !.stream_raised = stream.raises,
                 !.stream_session = c.vertex_session_id,
                 !.events = stream.events,
                 !.status = 200,
                 !.text = ResponseText(stream.events),
                 !.session_id = c.session_id,
                 !.session_created = g.created]]

\* The try block around stream_query, entered in the state c that the
\* create-or-reuse step left.
StreamAnswer(c, g, stream) ==
    [sessions |-> c.sessions,
     last |-> IF stream.raises
              THEN [c.request EXCEPT
                      !.stream_calls = 1,
                      !.stream_raised = TRUE,
                      !.stream_session = c.vertex_session_id,
                      !.events = stream.events,
                      !.status = 500,
                      !.detail = "Failed to query agent: " \o StreamError]
              ELSE [c.request EXCEPT
                      !.stream_calls = 1,
                      !.stream_session = c.vertex_session_id,
                      !.events = stream.events,
                      !.status = 200,
                      !.text = ResponseText(stream.events),
                      !.session_id = c.session_id,
                      !.session_created = g.created]]

\* The body of POST /query, where now is what int(time.time()) returns if it
\* is called, create what create_session does if it is called and stream what
\* stream_query does if it is called.
query_agent_with(userId, firebaseUid, sessionId, message, now, create, stream) ==
    LET session_key == SessionKey(userId, firebaseUid)
        g == get_or_create_session(sessions, session_key, sessionId, now,
                                   uuids)
        request == [NoRequest EXCEPT
                      !.op = "query",
                      !.userId = userId, !.firebaseUid = firebaseUid,
                      !.sessionId = sessionId, !.key = session_key,
                      !.had_entry = (session_key \in DOMAIN sessions),
                      !.local_sid = g.sid, !.created = g.created]
        answer ==
            IF AgentNotReady THEN MockAnswer(request, g, message)
            ELSE IF CallsCreateSession(g.created, sessionId)
            THEN IF create.raises THEN CreateFailedAnswer(request, g)
                 ELSE StreamAnswer(CreateSucceeded(request, g, create.response),
                                   g, stream)
            ELSE StreamAnswer(UseExisting(request, g), g, stream)
    IN
    /\ phase = "serving"
    /\ g.created => uuids < MaxUuid
    /\ uuids' = IF g.created THEN uuids + 1 ELSE uuids
    /\ sessions' = answer.sessions
    /\ last' = answer.last
    /\ UNCHANGED <<phase, globals, removed, services>>

\* What create_session and stream_query do when nothing calls them.
NotCalled == [raises |-> FALSE,
              response |-> SessionResponse(FALSE, None, None, None, None, ""),
              events |-> <<>>]

\* POST /query.  The environment's behaviour is drawn for the calls the
\* handler makes: time.time() when get_or_create_session makes a new id,
\* create_session when session_created or not request.sessionId,
\* stream_query unless create_session raised; no remote call when the agent
\* is not ready.
query_agent(userId, firebaseUid, sessionId, message) ==
    LET g == get_or_create_session(sessions, SessionKey(userId, firebaseUid),
                                   sessionId, 0, uuids)
        creates == ~AgentNotReady /\ CallsCreateSession(g.created, sessionId)
    IN
    \E now \in IF g.created THEN Times ELSE {0} :
      \E create \in IF creates THEN CreateOutcomes ELSE {NotCalled} :
        \E stream \in IF ~AgentNotReady /\ ~create.raises THEN Streams
                      ELSE {NotCalled} :
          query_agent_with(userId, firebaseUid, sessionId, message, now,
                           create, stream)

\* user_id = request.get("userId") or request.get("firebaseUid")
ClearKey(userId, firebaseUid) == Or(userId, firebaseUid)

\* The answer of /clear-session when the dict holds user_id: the entry is
\* deleted and its value returned.
ClearedAnswer(request, user_id) ==
    [sessions |-> Del(sessions, user_id),
     removed |-> [key |-> user_id, sid |-> sessions[user_id]],
     last |-> [request EXCEPT
                 !.status = 200,
                 !.text = "Session cleared for user " \o user_id,
                 !.cleared_session = sessions[user_id]]]

\* Mutant of NoSessionAnswer: a missing key is reported as an error.
NoSessionAnswer_NotFound(request, user_id) ==
    [sessions |-> sessions,
     removed |-> removed,
     last |-> [request EXCEPT
                 !.status = 404,
                 !.detail = "No session found for user " \o user_id]]

\* The answer of /clear-session when the dict does not hold user_id.
NoSessionAnswer(request, user_id) ==
    [sessions |-> sessions,
     removed |-> removed,
     last |-> [request EXCEPT
                 !.status = 200,
                 !.text = "No session found for user " \o user_id,
                 !.cleared_session = None]]

\* raise HTTPException(status_code=400, ...) when the body carries no id.
MissingIdAnswer(request) ==
    [sessions |-> sessions,
     removed |-> removed,
     last |-> [request EXCEPT
                 !.status = 400,
                 !.detail = "userId or firebaseUid is required"]]

\* POST /clear-session with the body {userId, firebaseUid}.
clear_session(userId, firebaseUid) ==
    LET user_id == ClearKey(userId, firebaseUid)
        request == [NoRequest EXCEPT
                      !.op = "clear",
                      !.userId = userId, !.firebaseUid = firebaseUid,
                      !.key = user_id,
                      !.had_entry = (user_id \in DOMAIN sessions)]
        answer ==
            IF ~Truthy(user_id) THEN MissingIdAnswer(request)
            ELSE IF user_id \in DOMAIN sessions
            THEN ClearedAnswer(request, user_id)
            ELSE NoSessionAnswer(request, user_id)
    IN
    /\ phase = "serving"
    /\ sessions' = answer.sessions
    /\ removed' = answer.removed
    /\ last' = answer.last
    /\ UNCHANGED <<phase, globals, uuids, services>>

\* GET /health: reads the two readiness globals.
health_check ==
    /\ phase = "serving"
    /\ last' = [NoRequest EXCEPT
                  !.op = "health",
                  !.status = 200,
                  !.text = "Agent proxy running",
                  !.vertex_ai_ready = VERTEX_AI_READY,
                  !.agent_ready = AGENT_READY]
    /\ UNCHANGED <<phase, globals, sessions, uuids, removed, services>>

\* GET /sessions: reads the dict.
list_sessions ==
    /\ phase = "serving"
    /\ last' = [NoRequest EXCEPT
                  !.op = "sessions",
                  !.status = 200,
                  !.sessions = sessions,
                  !.session_count = Cardinality(DOMAIN sessions)]
    /\ UNCHANGED <<phase, globals, sessions, uuids, removed, services>>

\* The session ids a client can send with a query: none, the empty string, an
\* id the proxy never issued, or an id the map holds now.
ProvidedIds == {None, "", BogusId} \cup Values(sessions)

Next ==
    \/ \E ok \in BOOLEAN : initialize_vertexAI(ok)
    \/ \E raises \in BOOLEAN, listed \in AgentLists :
           discover_latest_agent(raises, listed)
    \/ \E u \in UserIds, f \in FirebaseUids, s \in ProvidedIds,
          m \in Messages :
           query_agent(u, f, s, m)
    \/ \E u \in ClearUserIds, f \in ClearFirebaseUids : clear_session(u, f)
    \/ health_check
    \/ list_sessions

Spec == Init /\ [][Next]_vars

\* --------------------------------------------------- the event text model

\* POST /query where stream_query, if it is called, runs as one of
\* TextStreams.
query_agent_streaming(userId, firebaseUid, sessionId, message) ==
    LET g == get_or_create_session(sessions, SessionKey(userId, firebaseUid),
                                   sessionId, 0, uuids)
        creates == ~AgentNotReady /\ CallsCreateSession(g.created, sessionId)
    IN
    \E now \in IF g.created THEN Times ELSE {0} :
      \E create \in IF creates THEN CreateOutcomes ELSE {NotCalled} :
        \E stream \in IF ~AgentNotReady /\ ~create.raises THEN TextStreams
                      ELSE {NotCalled} :
          query_agent_with(userId, firebaseUid, sessionId, message, now,
                           create, stream)

\* The process from its start, serving the queries of callers that send no
\* firebaseUid, with every event shape on the stream.
NextText ==
    \/ \E ok \in BOOLEAN : initialize_vertexAI(ok)
    \/ \E raises \in BOOLEAN, listed \in AgentLists :
           discover_latest_agent(raises, listed)
    \/ \E u \in UserIds, s \in ProvidedIds, m \in Messages :
           query_agent_streaming(u, None, s, m)

SpecText == Init /\ [][NextText]_vars

\* ----------------------------------------------- the response shape model

\* POST /query where create_session, if it is called, answers with one of
\* ResponseShapes.
query_agent_shapes(userId, firebaseUid, sessionId, message) ==
    LET g == get_or_create_session(sessions, SessionKey(userId, firebaseUid),
                                   sessionId, 0, uuids)
        creates == ~AgentNotReady /\ CallsCreateSession(g.created, sessionId)
    IN
    \E now \in IF g.created THEN Times ELSE {0} :
      \E create \in IF creates THEN ShapeOutcomes ELSE {NotCalled} :
        \E stream \in IF ~AgentNotReady THEN Streams ELSE {NotCalled} :
          query_agent_with(userId, firebaseUid, sessionId, message, now,
                           create, stream)

\* The process from its start, serving the queries of callers that send no
\* firebaseUid, with every response shape of create_session.
NextShapes ==
    \/ \E ok \in BOOLEAN : initialize_vertexAI(ok)
    \/ \E raises \in BOOLEAN, listed \in AgentLists :
           discover_latest_agent(raises, listed)
    \/ \E u \in UserIds, s \in ProvidedIds, m \in Messages :
           query_agent_shapes(u, None, s, m)

SpecShapes == Init /\ [][NextShapes]_vars

\* ---------------------------------------------------- the security module

\* s.lower(), on the strings of the model.
Lower(s) ==
    CASE s = "Prod" -> "prod"
      [] s = "U-Factor.io" -> "u-factor.io"
      [] OTHER -> s

\* "prod" in s, on the strings of the model.
ContainsProd(s) == s \in {"prod", "hoopie-prod"}

\* Mutant of is_production_environment: the project id is not looked at.
is_production_environment_EnvOnly == Lower(ENVIRONMENT) = "prod"

\* ENVIRONMENT.lower() == "prod" or "prod" in PROJECT_ID.lower()
is_production_environment ==
    Lower(ENVIRONMENT) = "prod" \/ ContainsProd(Lower(PROJECT_ID))

ALLOWED_DOMAINS == <<"u-factor.io", "deloitte.pt">>

\* any(email.lower().endswith("@" + domain.lower()) ...): the text after the
\* last "@" is the domain, whatever the case.
is_email_allowed(email) ==
    /\ email # NoEmail
    /\ \E i \in 1..Len(ALLOWED_DOMAINS) :
         Lower(email.domain) = Lower(ALLOWED_DOMAINS[i])

\* A provider of provider_data has the id "google.com".
is_google_auth_user(user_record) ==
    \E i \in 1..Len(user_record.providers) :
      user_record.providers[i] = "google.com"

\* should_validate_user(user_record): the pair it returns.
should_validate_user(user_record) ==
    IF ~is_google_auth_user(user_record)
    THEN [validate |-> FALSE, reason |-> "non_google_auth"]
    ELSE [validate |-> TRUE, reason |-> "google_auth_user"]

\* except Exception as error: raise HTTPException(500), which also catches
\* an HTTPException raised inside the try block.
InternalServerError(request) ==
    [request EXCEPT !.status = 500, !.detail = "Internal server error"]

\* The three returns after should_validate_user, common to the webhook and
\* validate-user: skipped, rejected, authorized.
DomainVerdict(request, email) ==
    IF ~should_validate_user(request.user_record).validate
    THEN [request EXCEPT
            !.status = 200, !.body_status = "allowed",
            !.reason = should_validate_user(request.user_record).reason]
    ELSE IF ~is_email_allowed(email)
    THEN [request EXCEPT
            !.status = 200, !.body_status = "rejected",
            !.reason = "unauthorized_google_domain"]
    ELSE [request EXCEPT
            !.status = 200, !.body_status = "allowed",
            !.reason = "authorized_google_domain"]

\* The answer of POST /security/webhook/user-created for the payload
\* {uid, email}; json_ok is false when request.json() raises
\* JSONDecodeError.
UserCreationAnswer(json_ok, uid, email) ==
    LET request == [NoSecRequest EXCEPT
                      !.op = "user-created", !.uid = uid, !.email = email]
        looked == [request EXCEPT
                     !.get_user_calls = 1, !.auth_calls = 1,
                     !.user_record = IF uid \in DOMAIN auth_users
                                     THEN auth_users[uid] ELSE NoUser]
        verdict == DomainVerdict(looked, email)
    IN
    IF ~json_ok
    THEN [NoSecRequest EXCEPT !.op = "user-created", !.status = 400,
                              !.detail = "Invalid JSON payload"]
    ELSE IF ~Truthy(uid) THEN InternalServerError(request)
    ELSE IF is_production_environment
    THEN [request EXCEPT !.status = 200, !.body_status = "allowed",
                         !.reason = "production_environment"]
    ELSE IF uid \notin DOMAIN auth_users THEN InternalServerError(looked)
    ELSE IF verdict.body_status = "rejected"
    THEN [verdict EXCEPT !.scheduled = TRUE]
    ELSE verdict

\* POST /security/webhook/user-created.
handle_user_creation(json_ok, uid, email) ==
    LET answer == UserCreationAnswer(json_ok, uid, email) IN
    /\ answer.scheduled => Len(background_tasks) < MaxTasks
    /\ sec_last' = answer
    /\ background_tasks' =
         IF answer.scheduled
         THEN Append(background_tasks, [uid |-> uid, email |-> email])
         ELSE background_tasks
    /\ UNCHANGED <<ENVIRONMENT, PROJECT_ID, auth_users, outside_security>>

\* The answer of POST /security/validate-user for the body {uid, email}.
ValidateUserAnswer(uid, email) ==
    LET request == [NoSecRequest EXCEPT
                      !.op = "validate-user", !.uid = uid, !.email = email]
        looked == [request EXCEPT
                     !.get_user_calls = 1, !.auth_calls = 1,
                     !.user_record = IF uid \in DOMAIN auth_users
                                     THEN auth_users[uid] ELSE NoUser]
    IN
    IF is_production_environment
    THEN [request EXCEPT !.status = 200, !.body_status = "allowed",
                         !.reason = "production_environment"]
    ELSE IF uid \notin DOMAIN auth_users THEN InternalServerError(looked)
    ELSE IF auth_users[uid].email # email THEN InternalServerError(looked)
    ELSE DomainVerdict(looked, email)

\* POST /security/validate-user.
validate_user(uid, email) ==
    /\ sec_last' = ValidateUserAnswer(uid, email)
    /\ UNCHANGED <<ENVIRONMENT, PROJECT_ID, auth_users, background_tasks,
                   outside_security>>

\* DELETE /security/user/{uid}.
delete_user(uid) ==
    LET request == [NoSecRequest EXCEPT !.op = "delete-user", !.uid = uid] IN
    /\ IF is_production_environment
       THEN /\ sec_last' = [request EXCEPT
                              !.status = 403,
                              !.detail = "User deletion not allowed in production"]
            /\ UNCHANGED auth_users
       ELSE IF uid \in DOMAIN auth_users
       THEN /\ sec_last' = [request EXCEPT
                              !.get_user_calls = 1, !.auth_calls = 2,
                              !.user_record = auth_users[uid],
                              !.email = auth_users[uid].email,
                              !.deleted = uid,
                              !.status = 200, !.body_status = "deleted"]
            /\ auth_users' = Del(auth_users, uid)
       ELSE /\ sec_last' = [request EXCEPT
                              !.get_user_calls = 1, !.auth_calls = 1,
                              !.status = 404, !.detail = "User not found"]
            /\ UNCHANGED auth_users
    /\ UNCHANGED <<ENVIRONMENT, PROJECT_ID, background_tasks,
                   outside_security>>

\* The uids of the users for which test holds.
UsersWhere(test(_)) == {uid \in DOMAIN auth_users : test(auth_users[uid])}

\* GET /security/users/validate-all: the three lists' lengths.
validate_all_users ==
    LET request == [NoSecRequest EXCEPT !.op = "validate-all"]
        Authorized(u) == is_google_auth_user(u) /\ is_email_allowed(u.email)
        Unauthorized(u) == is_google_auth_user(u) /\ ~is_email_allowed(u.email)
        NonGoogle(u) == ~is_google_auth_user(u)
    IN
    /\ sec_last' =
         IF is_production_environment
         THEN [request EXCEPT
                 !.status = 403,
                 !.detail = "Bulk validation not allowed in production"]
         ELSE [request EXCEPT
                 !.auth_calls = 1, !.status = 200,
                 !.authorized = Cardinality(UsersWhere(Authorized)),
                 !.unauthorized = Cardinality(UsersWhere(Unauthorized)),
                 !.non_google = Cardinality(UsersWhere(NonGoogle))]
    /\ UNCHANGED <<ENVIRONMENT, PROJECT_ID, auth_users, background_tasks,
                   outside_security>>

\* The background task delete_unauthorized_user(uid, email) scheduled first
\* runs: auth.delete_user deletes the user, or raises when there is none.
delete_unauthorized_user ==
    LET task == Head(background_tasks)
        request == [NoSecRequest EXCEPT
                      !.op = "background", !.uid = task.uid,
                      !.email = task.email, !.auth_calls = 1]
    IN
    /\ background_tasks # <<>>
    /\ background_tasks' = Tail(background_tasks)
    /\ IF task.uid \in DOMAIN auth_users
       THEN /\ auth_users' = Del(auth_users, task.uid)
            /\ sec_last' = [request EXCEPT !.deleted = task.uid]
       ELSE /\ UNCHANGED auth_users
            /\ sec_last' = request
    /\ UNCHANGED <<ENVIRONMENT, PROJECT_ID, outside_security>>

\* What the clients of the security module send.
PayloadUids == DOMAIN InitialUsers \cup {"x9", None}
PayloadEmails ==
    {NoEmail, Email("a", "U-Factor.io"), Email("b", "deloitte.pt"),
     Email("c", "gmail.com")}

\* The security module started with any of the environments.
SecurityInit ==
    /\ ProxyInit
    /\ McpIdle
    /\ ToolsIdle
    /\ IncidentIdle
    /\ ENVIRONMENT \in Environments
    /\ PROJECT_ID \in ProjectIds
    /\ auth_users = InitialUsers
    /\ background_tasks = <<>>
    /\ sec_last = NoSecRequest

SecurityNext ==
    \/ \E json_ok \in BOOLEAN, uid \in PayloadUids, email \in PayloadEmails :
           handle_user_creation(json_ok, uid, email)
    \/ \E uid \in PayloadUids \ {None}, email \in PayloadEmails \ {NoEmail} :
           validate_user(uid, email)
    \/ \E uid \in PayloadUids \ {None} : delete_user(uid)
    \/ validate_all_users
    \/ delete_unauthorized_user

SpecSecurity == SecurityInit /\ [][SecurityNext]_vars

\* ---------------------------------------- the MCP server's authentication

\* The values of MCP_BEARER_TOKEN: unset, empty, or a token.
Tokens == {None, "", "s3cret", "other"}

\* The paths requests come in on: the three the middleware lets through,
\* the two routes, and a path that only starts like an exempt one.
Paths == {"/health", "/", "/favicon.ico", "/sse", "/messages/", "/health/"}

\* The Authorization headers requests carry: none, an empty one, the
\* scheme Bearer with several tokens, and other schemes.
Headers ==
    { NoHeader, Header("", ""), Header("Bearer", ""),
      Header("bearer ", "s3cret"), Header("Basic s", "3cret") }
    \cup { Header("Bearer ", t) : t \in {"", "s3cret", "other", "s3cret "} }

\* Mutant of dispatch: a header of the right scheme passes, whatever its
\* token.
dispatch_AnyBearer(path, header) ==
    LET request == [NoMcpRequest EXCEPT !.path = path, !.header = header] IN
    IF path \in {"/health", "/", "/favicon.ico"}
    THEN [request EXCEPT !.forwarded = TRUE]
    ELSE IF header = NoHeader \/ header = Header("", "")
    THEN [request EXCEPT !.status = 401,
                         !.error = "Missing Authorization header"]
    ELSE IF header.prefix # "Bearer "
    THEN [request EXCEPT !.status = 401,
                         !.error = "Invalid Authorization header format"]
    ELSE [request EXCEPT !.forwarded = TRUE]

\* AuthenticationMiddleware.dispatch(request, call_next).
dispatch(path, header) ==
    LET request == [NoMcpRequest EXCEPT !.path = path, !.header = header] IN
    IF path \in {"/health", "/", "/favicon.ico"}
    THEN [request EXCEPT !.forwarded = TRUE]
    ELSE IF header = NoHeader \/ header = Header("", "")
    THEN [request EXCEPT !.status = 401,
                         !.error = "Missing Authorization header"]
    ELSE IF header.prefix # "Bearer "
    THEN [request EXCEPT !.status = 401,
                         !.error = "Invalid Authorization header format"]
    ELSE IF header.rest # bearer_token
    THEN [request EXCEPT !.status = 401, !.error = "Invalid Bearer token"]
    ELSE [request EXCEPT !.forwarded = TRUE]

\* A request comes in on the app create_starlette_app built: through the
\* middleware if bearer_token was truthy, and straight to the routes if not.
receive(path, header) ==
    /\ mcp_last' =
         IF Truthy(bearer_token) THEN dispatch(path, header)
         ELSE [NoMcpRequest EXCEPT !.path = path, !.header = header,
                                   !.forwarded = TRUE]
    /\ UNCHANGED <<bearer_token, outside_mcp>>

McpInit ==
    /\ ProxyInit
    /\ SecurityIdle
    /\ ToolsIdle
    /\ IncidentIdle
    /\ bearer_token \in Tokens
    /\ mcp_last = NoMcpRequest

McpNext == \E path \in Paths, header \in Headers : receive(path, header)

SpecMcp == McpInit /\ [][McpNext]_vars

\* ------------------------------------------------- the incident tools

\* The length of a sys_id.
SysIdLength == 32

\* The string of n characters c.
Repeat(c, n) == [i \in 1..n |-> c]

\* The incident ids the tools are called with: sys_ids, strings that miss
\* being one by their length, their case or one character, an incident
\* number, and the empty string.
IncidentIds ==
    { Repeat("a", SysIdLength), Repeat("0", SysIdLength),
      Repeat("a", SysIdLength - 1), Repeat("a", SysIdLength + 1),
      Repeat("A", SysIdLength), Repeat("f", SysIdLength - 1) \o <<"g">>,
      <<"I", "N", "C", "1">>, <<>> }

\* What the GET by number can do: raise a RequestException, give no
\* result, or give a result whose first record carries a sys_id.
Lookups ==
    { [kind |-> "error", sys_id |-> <<>>], [kind |-> "empty", sys_id |-> <<>>],
      [kind |-> "found", sys_id |-> Repeat("b", SysIdLength)],
      [kind |-> "found", sys_id |-> Repeat("c", SysIdLength)] }

\* len(incident_id) == 32 and all(c in "0123456789abcdef" ...).
IsSysId(incident_id) ==
    /\ Len(incident_id) = SysIdLength
    /\ \A i \in 1..Len(incident_id) :
          incident_id[i] \in {"0", "1", "2", "3", "4", "5", "6", "7", "8", "9",
                              "a", "b", "c", "d", "e", "f"}

\* Mutant of find_sys_id: a lookup without result goes on with the id as
\* it was given.
find_sys_id_KeepsNumber(call, lookup) ==
    IF IsSysId(call.incident_id)
    THEN [call EXCEPT !.put_target = call.incident_id]
    ELSE LET asked == [call EXCEPT !.get_calls = 1,
                                   !.get_number = call.incident_id,
                                   !.lookup = lookup.kind] IN
         CASE lookup.kind = "error" ->
                [asked EXCEPT !.message = "Failed to find incident"]
           [] lookup.kind = "empty" ->
                [asked EXCEPT !.put_target = call.incident_id]
           [] lookup.kind = "found" ->
                [asked EXCEPT !.found_sys_id = lookup.sys_id,
                              !.put_target = lookup.sys_id]

\* The first part of update_incident, add_comment and resolve_incident: the
\* url of the PUT, from the id itself or from a GET by number.  An answer
\* given here is in message; put_target is where the PUT will go.
find_sys_id(call, lookup) ==
    IF IsSysId(call.incident_id)
    THEN [call EXCEPT !.put_target = call.incident_id]
    ELSE LET asked == [call EXCEPT !.get_calls = 1,
                                   !.get_number = call.incident_id,
                                   !.lookup = lookup.kind] IN
         CASE lookup.kind = "error" ->
                [asked EXCEPT !.message = "Failed to find incident"]
           [] lookup.kind = "empty" ->
                [asked EXCEPT !.message = "Incident not found"]
           [] lookup.kind = "found" ->
                [asked EXCEPT !.found_sys_id = lookup.sys_id,
                              !.put_target = lookup.sys_id]

\* The second part of the three tools: the PUT and the answer made of it.
put_incident(found, put_ok, done, failed) ==
    IF found.message # None THEN found
    ELSE [found EXCEPT !.put_calls = 1,
                       !.success = put_ok,
                       !.message = IF put_ok THEN done ELSE failed]

\* One of the three tools, called with incident_id.
tool_call(op, incident_id, lookup, put_ok, done, failed) ==
    LET call == [NoToolCall EXCEPT !.op = op, !.incident_id = incident_id] IN
    /\ tool_last' = put_incident(find_sys_id(call, lookup), put_ok, done, failed)
    /\ UNCHANGED outside_tools

update_incident(incident_id, lookup, put_ok) ==
    tool_call("update_incident", incident_id, lookup, put_ok,
              "Incident updated successfully", "Failed to update incident")

add_comment(incident_id, lookup, put_ok) ==
    tool_call("add_comment", incident_id, lookup, put_ok,
              "Comment added successfully", "Failed to add comment")

resolve_incident(incident_id, lookup, put_ok) ==
    tool_call("resolve_incident", incident_id, lookup, put_ok,
              "Incident resolved successfully", "Failed to resolve incident")

ToolsInit ==
    /\ ProxyInit
    /\ SecurityIdle
    /\ McpIdle
    /\ IncidentIdle
    /\ tool_last = NoToolCall

ToolsNext ==
    \E incident_id \in IncidentIds, lookup \in Lookups, put_ok \in BOOLEAN :
        \/ update_incident(incident_id, lookup, put_ok)
        \/ add_comment(incident_id, lookup, put_ok)
        \/ resolve_incident(incident_id, lookup, put_ok)

SpecTools == ToolsInit /\ [][ToolsNext]_vars

\* ------------------------------------------------ the incident's states

\* The number of state changes asked of one incident.
MaxChanges == 3

\* IncidentState: New, In Progress, On Hold, Resolved, Closed, Canceled.
IncidentStates == {"1", "2", "3", "6", "7", "8"}

\* The states a caller can name: the six, a value that is none of them,
\* and no value.
StateValues == IncidentStates \cup {"4", None}

\* dict.get(key, []) of a dict whose keys are the six states.
GetList(dict, key) == IF key \in DOMAIN dict THEN dict[key] ELSE <<>>

\* Mutant of is_valid_state_transition: a closed incident stays closed.
is_valid_state_transition_ClosedIsFinal(from_state, to_state) ==
    LET valid_transitions ==
            [s \in IncidentStates |->
                CASE s = "1" -> <<"2", "8">>
                  [] s = "2" -> <<"3", "6", "8">>
                  [] s = "3" -> <<"2", "6", "8">>
                  [] s = "6" -> <<"7", "2">>
                  [] s = "7" -> <<>>
                  [] s = "8" -> <<"2">>] IN
    to_state \in Values(GetList(valid_transitions, from_state))

is_valid_state_transition(from_state, to_state) ==
    LET valid_transitions ==
            [s \in IncidentStates |->
                CASE s = "1" -> <<"2", "8">>
                  [] s = "2" -> <<"3", "6", "8">>
                  [] s = "3" -> <<"2", "6", "8">>
                  [] s = "6" -> <<"7", "2">>
                  [] s = "7" -> <<"2">>
                  [] s = "8" -> <<"2">>] IN
    to_state \in Values(GetList(valid_transitions, from_state))

get_next_recommended_states(current_state) ==
    LET recommendations ==
            [s \in IncidentStates |->
                CASE s = "1" -> <<"2">>
                  [] s = "2" -> <<"3", "6">>
                  [] s = "3" -> <<"2">>
                  [] s = "6" -> <<"7">>
                  [] s = "7" -> <<>>
                  [] s = "8" -> <<>>] IN
    GetList(recommendations, current_state)

\* A caller asks the two helpers about a change of the incident's state to
\* to_state, and makes the change if is_valid_state_transition accepts it.
change_state(to_state) ==
    LET valid == is_valid_state_transition(inc_state, to_state) IN
    /\ inc_changes < MaxChanges
    /\ inc_changes' = inc_changes + 1
    /\ inc_last' = [from |-> inc_state, to |-> to_state, valid |-> valid,
                    recommended |-> get_next_recommended_states(inc_state)]
    /\ inc_state' = IF valid THEN to_state ELSE inc_state
    /\ UNCHANGED <<data_last, outside_incident>>

StatesInit ==
    /\ ProxyInit
    /\ SecurityIdle
    /\ McpIdle
    /\ ToolsIdle
    /\ inc_state \in StateValues \ {None}
    /\ inc_changes = 0
    /\ inc_last = NoTransition
    /\ data_last = NoData

StatesNext == \E to_state \in StateValues : change_state(to_state)

SpecStates == StatesInit /\ [][StatesNext]_vars

\* ---------------------------------------------- the incident's priority

\* The keys of PRIORITY_LABELS, and of IMPACT_LABELS and URGENCY_LABELS.
PRIORITY_LABELS == {"1", "2", "3", "4", "5"}
IMPACT_LABELS == {"1", "2", "3"}
URGENCY_LABELS == {"1", "2", "3"}

\* The values the fields of incident data take: missing, empty, valid
\* and invalid ones.
Descriptions == {None, "Printer down"}
DataStates == {None, "1", "4"}
Levels == {None, "", "1", "2", "3", "4"}
Priorities == {None, "1", "2", "3", "4", "5", "6"}

PRIORITY_MATRIX ==
    (<<"1", "1">> :> "1") @@ (<<"1", "2">> :> "2") @@ (<<"1", "3">> :> "3") @@
    (<<"2", "1">> :> "2") @@ (<<"2", "2">> :> "3") @@ (<<"2", "3">> :> "4") @@
    (<<"3", "1">> :> "3") @@ (<<"3", "2">> :> "4") @@ (<<"3", "3">> :> "5")

\* Mutant of calculate_priority: the priority is the impact.
calculate_priority_ImpactOnly(impact, urgency) ==
    IF <<impact, urgency>> \in DOMAIN PRIORITY_MATRIX THEN impact ELSE None

\* PRIORITY_MATRIX.get((impact, urgency)).
calculate_priority(impact, urgency) ==
    IF <<impact, urgency>> \in DOMAIN PRIORITY_MATRIX
    THEN PRIORITY_MATRIX[<<impact, urgency>>]
    ELSE None

\* issues.append(issue) if test holds.
AppendIf(issues, test, issue) == IF test THEN Append(issues, issue) ELSE issues

\* validate_incident_data(incident_data), incident_data holding the five
\* fields (None for a key it does not have).
validate_incident_data(short_description, state, impact, urgency, priority) ==
    LET called == Truthy(impact) /\ Truthy(urgency)
        expected_priority ==
            IF called THEN calculate_priority(impact, urgency) ELSE None
        required == AppendIf(<<>>, ~Truthy(short_description),
                             "Short description is required")
        of_state == AppendIf(required,
                             Truthy(state) /\ state \notin IncidentStates,
                             "Invalid state")
        of_priority == AppendIf(of_state,
                                /\ Truthy(priority)
                                /\ priority \notin PRIORITY_LABELS,
                                "Invalid priority")
        of_impact == AppendIf(of_priority,
                              Truthy(impact) /\ impact \notin IMPACT_LABELS,
                              "Invalid impact")
        of_urgency == AppendIf(of_impact,
                               Truthy(urgency) /\ urgency \notin URGENCY_LABELS,
                               "Invalid urgency")
        issues == AppendIf(of_urgency,
                           /\ called
                           /\ Truthy(priority)
                           /\ priority # expected_priority,
                           "Priority inconsistent")
    IN
    /\ data_last' =
         [op |-> "validate_incident_data",
          short_description |-> short_description, state |-> state,
          impact |-> impact, urgency |-> urgency, priority |-> priority,
          expected_priority |-> expected_priority, issues |-> issues]
    /\ UNCHANGED <<inc_state, inc_changes, inc_last, outside_incident>>

PriorityInit ==
    /\ ProxyInit
    /\ SecurityIdle
    /\ McpIdle
    /\ ToolsIdle
    /\ IncidentIdle

PriorityNext ==
    \E short_description \in Descriptions, state \in DataStates,
       impact \in Levels, urgency \in Levels, priority \in Priorities :
        validate_incident_data(short_description, state, impact, urgency,
                               priority)

SpecPriority == PriorityInit /\ [][PriorityNext]_vars

\* ------------------------------------------------------------------ claims

\* The caller keys a request can carry.
CallerKeys == {k \in UserIds \cup FirebaseUids : Truthy(k)}

\* The step handles a request and leaves another record than the one of the
\* request before.  (A request that leaves the record it found also leaves
\* every variable as it found it, and is a stuttering step.)
RequestStep == last' # last
QueryStep == RequestStep /\ last'.op = "query"
ClearStep == RequestStep /\ last'.op = "clear"

\* C1: when several /query requests for the same never-seen caller key and
\* without sessionId have all been answered, every one of them returned the
\* value the map stores for the key.  Stated for two requests that the loop
\* serves one after the other: the second one returns the session id the
\* first one returned, and the map holds it.
C1_NoLostUpdate ==
    [][ ( /\ last.op = "query" /\ last.status = 200
          /\ ~last.had_entry /\ ~Truthy(last.sessionId)
          /\ QueryStep /\ last'.status = 200
          /\ last'.key = last.key /\ ~Truthy(last'.sessionId) )
        => ( /\ last'.session_id = last.session_id
             /\ sessions'[last.key] = last'.session_id ) ]_vars

\* C2: for a key K without entry, get_or_create_session(K, None) returns
\* created = TRUE and records K -> id; calling it again, at any time, returns
\* the same id with created = FALSE and leaves the dict as it is.
C2_CreateThenStable ==
    \A K \in CallerKeys \ DOMAIN sessions : \A t1 \in Times, t2 \in Times :
      LET first == get_or_create_session(sessions, K, None, t1, uuids)
          second == get_or_create_session(first.sessions, K, None, t2,
                                          uuids + 1)
      IN /\ first.created
         /\ first.sessions = Put(sessions, K, first.sid)
         /\ second.sid = first.sid
         /\ ~second.created
         /\ second.sessions = first.sessions

\* C2 witness: a query without sessionId found its key tracked and answered
\* with the tracked id, which an earlier query without sessionId had created.
C2_Witness ==
    /\ last.op = "query" /\ ~Truthy(last.sessionId)
    /\ last.had_entry /\ ~last.created
    /\ last.create_calls = 0
    /\ last.session_id = NewSessionId(last.key, 0, 1)
    /\ sessions[last.key] = last.session_id

\* C3: for every key K and every id S that is a value of the dict,
\* get_or_create_session(K, S) returns (S, FALSE) and leaves the dict as it
\* is, whether K has no entry, the entry S or another entry.
C3_ProvidedTrackedIsReturned ==
    \A K \in CallerKeys : \A S \in Values(sessions) :
      \A t \in Times :
        LET r == get_or_create_session(sessions, K, S, t, uuids)
        IN r.sid = S /\ ~r.created /\ r.sessions = sessions

\* C3 witness: a query provided an id tracked under another key while its own
\* key had a different entry, and was resolved to the provided id.
C3_Witness ==
    /\ last.op = "query" /\ Truthy(last.sessionId)
    /\ last.local_sid = last.sessionId /\ ~last.created
    /\ last.key \in DOMAIN sessions
    /\ sessions[last.key] # last.sessionId
    /\ \E k \in DOMAIN sessions : k # last.key /\ sessions[k] = last.sessionId

\* C4: /clear-session for a tracked key removes its entry, and the next
\* query of that key without sessionId (whatever other keys' requests come
\* in between) creates, in its local resolution, an id that is not the
\* removed one.
C4_ClearThenFresh ==
    [][ /\ ( ClearStep /\ Truthy(last'.key) /\ last'.key \in DOMAIN sessions )
           => ( /\ last'.key \notin DOMAIN sessions'
                /\ last'.cleared_session = sessions[last'.key] )
        /\ ( /\ QueryStep /\ last'.key = removed.key
             /\ last'.key \notin DOMAIN sessions
             /\ ~Truthy(last'.sessionId) )
           => ( /\ last'.created
                /\ last'.local_sid # removed.sid ) ]_vars

\* C4 witness: the key whose synthesized id was cleared has been given
\* another synthesized id within the same second.
C4_Witness ==
    /\ last.op = "query" /\ last.created /\ ~Truthy(last.sessionId)
    /\ last.key = removed.key
    /\ \E t \in Times :
         /\ removed.sid = NewSessionId(last.key, t, 1)
         /\ last.local_sid = NewSessionId(last.key, t, 2)
    /\ last.session_id = last.local_sid
    /\ sessions[last.key] = last.local_sid

\* C5: /clear-session for a key without entry answers 200 with
\* cleared_session None and leaves the dict as it is; after any
\* /clear-session of a key the key has no entry, so that a second one in a
\* row is such a request and leaves the dict the first one left.
C5_ClearMissingIsNoop ==
    [][ ( ClearStep /\ Truthy(last'.key) )
        => ( /\ last'.status = 200
             /\ last'.key \notin DOMAIN sessions'
             /\ ( last'.key \notin DOMAIN sessions
                  => ( /\ last'.cleared_session = None
                       /\ sessions' = sessions ) ) ) ]_vars

\* C5 witness: a key without entry was cleared while the dict held another
\* key.
C5_Witness ==
    /\ last.op = "clear" /\ Truthy(last.key) /\ ~last.had_entry
    /\ last.status = 200 /\ last.cleared_session = None
    /\ sessions # EmptyDict

\* C6: the query and the clear-session operation key the dict alike,
\* by the firebaseUid when a request carries both ids: a /clear-session with
\* the two ids of the query served just before is keyed as that query was
\* and removes exactly the entry the query used.
C6_ClearUsesQueryKey ==
    [][ ( /\ last.op = "query" /\ last.status = 200
          /\ Truthy(last.userId) /\ Truthy(last.firebaseUid)
          /\ ClearStep
          /\ last'.userId = last.userId
          /\ last'.firebaseUid = last.firebaseUid )
        => ( /\ last'.key = last.key
             /\ last'.cleared_session = sessions[last.key]
             /\ sessions' = Del(sessions, last.key) ) ]_vars

\* C7: while the agent is not ready a query makes no remote call and answers
\* 200 with the mock text and a non-empty session id, which is the id local
\* resolution returned and is tracked by the dict; for a key that had no
\* entry, unless the request provided a tracked id, the dict now maps the key
\* to the returned id.
C7_MockKeepsBookkeeping ==
    (last.op = "query" /\ AgentNotReady)
    => /\ last.status = 200
       /\ \E m \in Messages : last.text = MockText(m, last.userId)
       /\ last.create_calls = 0 /\ last.stream_calls = 0
       /\ Truthy(last.session_id)
       /\ last.session_id = last.local_sid
       /\ last.session_created = last.created
       /\ last.session_id \in Values(sessions)
       /\ ( ~last.had_entry /\ last.session_id # last.sessionId )
          => ( /\ last.created
               /\ last.key \in DOMAIN sessions
               /\ sessions[last.key] = last.session_id )

\* C7 witness: with Vertex AI initialised but no agent discovered, a query of
\* a never-seen key was answered with a freshly recorded session id.
C7_Witness ==
    /\ last.op = "query" /\ AgentNotReady /\ VERTEX_AI_READY
    /\ ~last.had_entry /\ last.session_created
    /\ last.text = MockText("hi", "u1")
    /\ sessions[last.key] = last.session_id

\* C8: when create_session raised, the request ends with a 500 whose detail
\* carries the upstream error text, stream_query was not called, and the
\* dict maps the caller key to the id local resolution returned.
C8_CreateFailureKeepsLocalEntry ==
    last.create_raised
    => /\ last.status = 500
       /\ last.detail = "Failed to create session: " \o CreateError
       /\ last.text = None /\ last.session_id = None
       /\ last.create_calls = 1
       /\ last.stream_calls = 0
       /\ last.key \in DOMAIN sessions
       /\ sessions[last.key] = last.local_sid

\* C8 witness: create_session raised for a key whose id had just been
\* synthesized, and the dict still holds that id.
C8_Witness ==
    /\ last.create_raised /\ last.created /\ ~last.had_entry
    /\ \E t \in Times : sessions[last.key] = NewSessionId(last.key, t, uuids)

\* C9: when create_session returned, the dict maps the caller key to the id
\* read off the response, stream_query was called with that id, and a 200
\* answer carries that id.
C9_RemoteIdStoredStreamedReturned ==
    (last.op = "query" /\ last.create_calls = 1 /\ ~last.create_raised)
    => /\ Truthy(last.remote_sid)
       /\ last.key \in DOMAIN sessions
       /\ sessions[last.key] = last.remote_sid
       /\ last.stream_calls = 1
       /\ last.stream_session = last.remote_sid
       /\ IF last.stream_raised THEN last.status = 500
          ELSE last.status = 200 /\ last.session_id = last.remote_sid

\* C9 witness: a query overwrote a tracked id with the remote id and returned
\* the remote id.
C9_Witness ==
    /\ last.op = "query" /\ last.create_calls = 1 /\ last.status = 200
    /\ last.had_entry /\ last.local_sid # last.remote_sid
    /\ sessions[last.key] = last.remote_sid
    /\ last.session_id = last.remote_sid

ClientIds ==
    {BogusId} \cup {VertexSessionId(r) : r \in CreateResponses}
    \cup {NewSessionId(k, t, n) : k \in CallerKeys, t \in Times, n \in 1..uuids}

\* C11: for every key K and every non-empty id S that is not a value of the
\* dict, get_or_create_session(K, S) ignores S: when K has an entry it returns
\* (sessions[K], FALSE) and leaves the dict as it is; when K has no entry it
\* records K -> a newly synthesized id, which is not S, and returns it with
\* created = TRUE.
C11_UntrackedProvidedIsIgnored ==
    \A K \in CallerKeys : \A S \in ClientIds \ Values(sessions) :
      \A t \in Times :
        LET r == get_or_create_session(sessions, K, S, t, uuids)
        IN IF K \in DOMAIN sessions
           THEN r.sid = sessions[K] /\ ~r.created /\ r.sessions = sessions
           ELSE /\ r.created
                /\ r.sid # S
                /\ r.sid = NewSessionId(K, t, uuids + 1)
                /\ r.sid \notin Values(sessions)
                /\ r.sessions = Put(sessions, K, r.sid)

\* C11 witness: a query provided an id the proxy never issued, and was
\* resolved to the entry of its own key.
C11_Witness ==
    /\ last.op = "query" /\ last.sessionId = BogusId
    /\ last.sessionId \notin Values(sessions)
    /\ last.had_entry /\ ~last.created
    /\ last.local_sid # last.sessionId
    /\ sessions[last.key] = last.local_sid

\* C12: when stream_query raised, also after it had yielded events with
\* text, the query ends with a 500 whose detail carries the upstream error
\* text, and the answer has no text and no session id: the text accumulated
\* before the exception is not delivered.
C12_StreamFailureDeliversNoText ==
    (last.op = "query" /\ last.stream_raised)
    => /\ last.status = 500
       /\ last.detail = "Failed to query agent: " \o StreamError
       /\ last.text = None
       /\ last.session_id = None
       /\ ~last.session_created

\* C12 witness: stream_query raised after an event whose text the loop had
\* accumulated.
C12_Witness ==
    /\ last.op = "query" /\ last.stream_raised
    /\ last.events # <<>>
    /\ \A i \in 1..Len(last.events) : EventText(last.events[i]) # ""
    /\ last.status = 500

\* The query was answered 200 after its stream had been consumed.
Streamed == last.op = "query" /\ last.status = 200 /\ last.stream_calls = 1

\* C13: a query answered 200 never carries an empty text; when the stream
\* yielded no event, or only events from which no text was extracted, the
\* text is the fixed placeholder.
C13_NeverEmptyText ==
    (last.op = "query" /\ last.status = 200)
    => /\ last.text # "" /\ last.text # None
       /\ ( /\ last.stream_calls = 1
            /\ \A i \in 1..Len(last.events) : EventText(last.events[i]) = "" )
          => last.text = NoTextResponse

\* C13 witness: the stream yielded events, all without text, and the answer
\* carries the placeholder.
C13_Witness ==
    /\ Streamed
    /\ last.events = <<NoTextPartsDictEvent, NoTextPartsDictEvent>>
    /\ last.text = NoTextResponse

\* The texts of the parts that have one, in list order.
RECURSIVE ClaimedPartsText(_, _)
ClaimedPartsText(parts, i) ==
    IF i = 0 THEN ""
    ELSE ClaimedPartsText(parts, i - 1)
         \o (IF parts[i] # None THEN parts[i] ELSE "")

\* The six shape rules, the first that matches wins: a direct text field; a
\* content object with a parts list; a keyed structure with a text key; a
\* keyed structure with content.parts; a keyed structure with content but no
\* parts; otherwise the stringified event.
ClaimedEventText(e) ==
    IF e.cls = "obj" /\ e.text # None THEN e.text
    ELSE IF e.cls = "obj" /\ e.content = "parts"
    THEN ClaimedPartsText(e.parts, Len(e.parts))
    ELSE IF e.cls = "dict" /\ e.text # None THEN e.text
    ELSE IF e.cls = "dict" /\ e.content = "parts"
    THEN ClaimedPartsText(e.parts, Len(e.parts))
    ELSE IF e.cls = "dict" /\ e.content # "absent" THEN e.cstr
    ELSE e.repr

\* C14: the text of a query whose stream yielded one event is what the six
\* shape rules give for that event (the placeholder standing in for an empty
\* text); {"text": "hi"} gives "hi", parts with the texts a and b give "ab",
\* {"content": "raw"} gives "raw".
C14_SixShapeRules ==
    (Streamed /\ Len(last.events) = 1)
    => /\ last.text = IF ClaimedEventText(last.events[1]) = ""
                      THEN NoTextResponse
                      ELSE ClaimedEventText(last.events[1])
       /\ last.events[1] = TextDictEvent => last.text = "hi"
       /\ last.events[1] = PartsDictEvent => last.text = "ab"
       /\ last.events[1] = RawDictEvent => last.text = "raw"

\* The event matches none of the first five shape rules.
Unrecognized(e) ==
    /\ ~(e.cls = "obj" /\ (e.text # None \/ e.content = "parts"))
    /\ ~(e.cls = "dict" /\ (e.text # None \/ e.content # "absent"))

\* C15: no event is dropped: when the stream yielded one event of
\* unrecognized shape, {} included, and then ended, the query is answered 200
\* with the stringified event as its text.
C15_NoEventDropped ==
    ( /\ last.op = "query" /\ last.stream_calls = 1 /\ ~last.stream_raised
      /\ Len(last.events) = 1 /\ Unrecognized(last.events[1]) )
    => /\ last.status = 200
       /\ last.text = last.events[1].repr

\* The texts the loop extracts from events 1..i, joined in arrival order.
RECURSIVE InArrivalOrder(_, _)
InArrivalOrder(events, i) ==
    IF i = 0 THEN ""
    ELSE InArrivalOrder(events, i - 1) \o EventText(events[i])

\* C16: the text of a query answered after streaming is the concatenation,
\* in arrival order, of the text extracted from every event the stream
\* yielded up to its end (the placeholder standing in for an empty text),
\* the texts of one event's parts in list order: the events "hi", parts a and
\* b, "raw" give "hiabraw", and parts x, (no text), y followed by the string
\* plain give "xyplain".
C16_ConcatenationInArrivalOrder ==
    Streamed
    => /\ last.text =
            IF InArrivalOrder(last.events, Len(last.events)) = ""
            THEN NoTextResponse
            ELSE InArrivalOrder(last.events, Len(last.events))
       /\ last.events = <<TextDictEvent, PartsDictEvent, RawDictEvent>>
          => last.text = "hiabraw"
       /\ last.events = <<PartsObjEvent, StrEvent>>
          => last.text = "xyplain"

\* C16 witness: a stream of three events was consumed to its end and the
\* answer carries the three texts in arrival order.
C16_Witness ==
    /\ Streamed
    /\ last.events = <<TextDictEvent, PartsDictEvent, RawDictEvent>>
    /\ last.text = "hiabraw"

\* C17: right after startup discovery the process serves; when the listing
\* was made, did not raise and answered a non-empty list, the agent is ready
\* and the cached agent is an entry of the list whose creation time no other
\* entry exceeds; when Vertex AI was not initialised, the listing raised or
\* the list was empty, the agent is not ready and nothing is cached.
C17_DiscoverySelectsLatest ==
    last.op = "discover"
    => /\ phase = "serving"
       /\ last.list_calls = (IF VERTEX_AI_READY THEN 1 ELSE 0)
       /\ IF last.list_calls = 1 /\ ~last.list_raised /\ last.listed # <<>>
          THEN /\ AGENT_READY
               /\ \E i \in 1..Len(last.listed) : remote_app = last.listed[i]
               /\ \A j \in 1..Len(last.listed) :
                    last.listed[j].create_time <= remote_app.create_time
               /\ AGENT_ID = remote_app.name[2]
          ELSE /\ ~AGENT_READY
               /\ remote_app = NoAgent
               /\ AGENT_ID = None

\* C17 witness: the listing answered an older agent before a newer one and
\* the newer one is cached.
C17_Witness ==
    /\ last.op = "discover"
    /\ last.listed = <<Agent("e1", 1), Agent("e2", 2)>>
    /\ AGENT_READY
    /\ remote_app = Agent("e2", 2)
    /\ AGENT_ID = "e2"

\* C18: once startup has finished, no step changes the readiness globals, the
\* cached agent or its id, and no step is a discovery or lists the agents:
\* every /query, /clear-session, /health and /sessions request leaves them
\* as startup left them.
C18_DiscoveryIsOneShot ==
    [][ phase = "serving"
        => ( /\ phase' = "serving"
             /\ VERTEX_AI_READY' = VERTEX_AI_READY
             /\ AGENT_READY' = AGENT_READY
             /\ remote_app' = remote_app
             /\ AGENT_ID' = AGENT_ID
             /\ last'.op \in {"query", "clear", "health", "sessions"}
             /\ last'.list_calls = 0 ) ]_vars

\* C18 witness: /health reports the agent ready after a query whose
\* create_session call had failed and left its entry in the dict.
C18_Witness ==
    /\ phase = "serving"
    /\ last.op = "health" /\ last.agent_ready /\ last.vertex_ai_ready
    /\ AGENT_READY /\ remote_app = Agent("e2", 2) /\ AGENT_ID = "e2"
    /\ \E k \in DOMAIN sessions, t \in Times :
         sessions[k] = NewSessionId(k, t, uuids)

\* C19: a query makes at most one create_session call and at most one
\* stream_query call; when either raised it was called once, nothing was
\* called after it, and the answer is the 500 that carries its error text;
\* a 500 is answered in these cases only.
C19_NoRetry ==
    last.op = "query"
    => /\ last.create_calls \in {0, 1}
       /\ last.stream_calls \in {0, 1}
       /\ last.create_raised
          => ( /\ last.create_calls = 1 /\ last.stream_calls = 0
               /\ last.status = 500
               /\ last.detail = "Failed to create session: " \o CreateError )
       /\ last.stream_raised
          => ( /\ last.stream_calls = 1 /\ ~last.create_raised
               /\ last.status = 500
               /\ last.detail = "Failed to query agent: " \o StreamError )
       /\ last.status = 500 <=> (last.create_raised \/ last.stream_raised)
       /\ last.status \in {200, 500}

\* C19 witness: stream_query raised after create_session had answered; each
\* was called once and the query was answered 500.
C19_Witness ==
    /\ last.op = "query"
    /\ last.create_calls = 1 /\ ~last.create_raised
    /\ last.stream_calls = 1 /\ last.stream_raised
    /\ last.status = 500

\* C20: a key leaves the dict only in a /clear-session step for that key,
\* which returns the entry's value; a /query step, whatever its answer,
\* removes no key and leaves the entry of every key other than its own as it
\* was; /health and /sessions leave the dict as it was.  No other step
\* exists: nothing expires or evicts an entry.
C20_OnlyClearRemoves ==
    [][ /\ \A k \in DOMAIN sessions :
             k \notin DOMAIN sessions'
             => ( /\ last'.op = "clear" /\ last'.key = k
                  /\ last'.cleared_session = sessions[k] )
        /\ last'.op = "query"
           => \A k \in (DOMAIN sessions \cup DOMAIN sessions') \ {last'.key} :
                /\ k \in DOMAIN sessions /\ k \in DOMAIN sessions'
                /\ sessions'[k] = sessions[k]
        /\ last'.op = "clear"
           => \A k \in DOMAIN sessions \ {last'.key} :
                k \in DOMAIN sessions' /\ sessions'[k] = sessions[k]
        /\ last'.op \in {"health", "sessions"} => sessions' = sessions
      ]_vars

\* C20 witness: a query whose stream_query call failed has left its own
\* entry and the entry of another key in the dict.
C20_Witness ==
    /\ last.op = "query" /\ last.status = 500 /\ last.stream_raised
    /\ last.key \in DOMAIN sessions
    /\ \E k \in DOMAIN sessions : k # last.key

\* The id the known shapes give, tried in order: an id directly on the
\* response, an id field of a keyed response, a nested output.id; the
\* stringified response when none matches.
ClaimedSessionId(r) ==
    LET direct == r.attr_id
        keyed == IF r.is_dict THEN r.key_id ELSE None
        nested == IF r.attr_output_id # None THEN r.attr_output_id
                  ELSE IF r.is_dict THEN r.key_output_id ELSE None
    IN IF direct # None THEN direct
       ELSE IF keyed # None THEN keyed
       ELSE IF nested # None THEN nested
       ELSE r.repr

\* C21: when create_session answered, the remote session id the handler
\* uses is the one the first matching shape of the response gives, the
\* shapes tried in the order direct id, keyed id, nested output.id, and the
\* stringified response when no shape matches; it is the id the dict holds.
C21_FirstMatchingShape ==
    (last.op = "query" /\ last.create_calls = 1 /\ ~last.create_raised)
    => /\ last.remote_sid = ClaimedSessionId(last.create_response)
       /\ sessions[last.key] = last.remote_sid
       /\ last.stream_session = last.remote_sid

\* C21 witness: the response was a dict with both the key id and a nested
\* output.id, and the id of the key id was taken.
C21_Witness ==
    /\ last.op = "query" /\ last.create_calls = 1
    /\ last.create_response = SessionResponse(TRUE, None, "k", None, "ko", "dict")
    /\ last.remote_sid = "k"
    /\ sessions[last.key] = "k"

\* C23: in every 200 answer of a query that was streamed, session_created
\* is true exactly when the handler called create_session; and when it is
\* false the entry the caller's key had before the request is still the
\* entry it has after it.
C23_SessionCreatedIffRemoteCreate ==
    [][ ( QueryStep /\ last'.status = 200 /\ last'.stream_calls = 1 )
        => ( /\ last'.session_created <=> last'.create_calls = 1
             /\ ( ~last'.session_created /\ last'.key \in DOMAIN sessions )
                => sessions'[last'.key] = sessions[last'.key] ) ]_vars

\* ENVIRONMENT is prod, or the project id contains prod.
InProduction ==
    ENVIRONMENT \in {"prod", "Prod"} \/ PROJECT_ID = "hoopie-prod"

\* The request handled last went to the user-created webhook or to
\* validate-user.
ValidationRequest == sec_last.op \in {"user-created", "validate-user"}

\* C22: outside production, the user-created webhook and validate-user
\* answer with the status allowed only for a user whose email is in the
\* domain u-factor.io.
C22_AllowedOnlyUFactor ==
    (ValidationRequest /\ ~InProduction /\ sec_last.body_status = "allowed")
    => /\ sec_last.user_record # NoUser
       /\ Lower(sec_last.user_record.email.domain) = "u-factor.io"

\* C24: a deletion is scheduled only by the user-created webhook, outside
\* production, for a user whose record has a google.com provider and whose
\* email is in no allowed domain; validate-user and validate-all schedule
\* and delete nothing.
C24_DeletionOnlyForUnauthorizedGoogle ==
    /\ sec_last.scheduled
       => ( /\ sec_last.op = "user-created"
            /\ ~InProduction
            /\ is_google_auth_user(sec_last.user_record)
            /\ ~is_email_allowed(sec_last.user_record.email) )
    /\ sec_last.op \in {"validate-user", "validate-all"}
       => ( ~sec_last.scheduled /\ sec_last.deleted = None )

\* C25: in production the user-created webhook and validate-user answer
\* every request that carries a uid with allowed, without a Firebase Auth
\* call and without scheduling a deletion; delete-user and validate-all
\* answer 403 without a Firebase Auth call; no user is ever removed and no
\* deletion is ever scheduled.
C25_ProductionAllowsAndRefuses ==
    InProduction
    => /\ (ValidationRequest /\ Truthy(sec_last.uid))
          => ( /\ sec_last.status = 200
               /\ sec_last.body_status = "allowed"
               /\ sec_last.reason = "production_environment"
               /\ sec_last.get_user_calls = 0 /\ sec_last.auth_calls = 0
               /\ ~sec_last.scheduled )
       /\ sec_last.op \in {"delete-user", "validate-all"}
          => ( /\ sec_last.status = 403
               /\ sec_last.auth_calls = 0
               /\ sec_last.deleted = None )
       /\ auth_users = InitialUsers
       /\ background_tasks = <<>>

\* C25 witness: with ENVIRONMENT dev and a project id that contains prod, the
\* webhook allowed a Google user of a domain that is not allowed, without
\* looking the user up.
C25_Witness ==
    /\ ENVIRONMENT = "dev" /\ PROJECT_ID = "hoopie-prod"
    /\ sec_last.op = "user-created" /\ sec_last.uid = "g2"
    /\ sec_last.email = Email("c", "gmail.com")
    /\ sec_last.body_status = "allowed"
    /\ sec_last.get_user_calls = 0

\* C26: the webhook answers a payload without uid with 400 and an unknown
\* uid with 404; validate-user answers an unknown uid with 404 and an email
\* that differs from the record's with 400; none of them is answered 500.
C26_ClientErrorsKeepTheirStatus ==
    /\ (sec_last.op = "user-created" /\ ~Truthy(sec_last.uid))
       => sec_last.status = 400
    /\ ( /\ ValidationRequest /\ ~InProduction /\ Truthy(sec_last.uid)
         /\ sec_last.get_user_calls = 1 /\ sec_last.user_record = NoUser )
       => sec_last.status = 404
    /\ ( /\ sec_last.op = "validate-user" /\ ~InProduction
         /\ sec_last.user_record # NoUser
         /\ sec_last.user_record.email # sec_last.email )
       => sec_last.status = 400

\* C27: with a bearer token configured, a request on a path other than
\* /health, / and /favicon.ico is passed on to the routes exactly when its
\* Authorization header is "Bearer " followed by the configured token, and
\* is answered 401 by the middleware otherwise.
C27_OnlyTheConfiguredTokenPasses ==
    ( /\ Truthy(bearer_token) /\ mcp_last.path # None
      /\ mcp_last.path \notin {"/health", "/", "/favicon.ico"} )
    => /\ mcp_last.forwarded
          <=> mcp_last.header = Header("Bearer ", bearer_token)
       /\ mcp_last.status = (IF mcp_last.forwarded THEN 0 ELSE 401)

\* C27 witness: a request for /sse that carried another token than the
\* configured one was answered 401.
C27_Witness ==
    /\ bearer_token = "s3cret"
    /\ mcp_last.path = "/sse"
    /\ mcp_last.header = Header("Bearer ", "other")
    /\ mcp_last.status = 401 /\ ~mcp_last.forwarded

\* A string of 32 characters, each a digit or a lower-case letter a..f.
LowercaseHex32(id) ==
    /\ Len(id) = 32
    /\ {id[i] : i \in 1..Len(id)} \subseteq
         {"0", "1", "2", "3", "4", "5", "6", "7", "8", "9",
          "a", "b", "c", "d", "e", "f"}

\* C28: update_incident, add_comment and resolve_incident, called with an
\* id that is not a 32-character lowercase-hex sys_id, look the incident up
\* by that number; if the lookup fails or gives no result they answer
\* success=false and send no PUT; a PUT they send goes to the sys_id the
\* lookup returned.
C28_PutOnlyToTheLookedUpSysId ==
    (tool_last.op # "none" /\ ~LowercaseHex32(tool_last.incident_id))
    => /\ tool_last.get_calls = 1
       /\ tool_last.get_number = tool_last.incident_id
       /\ tool_last.lookup \in {"error", "empty"}
          => (~tool_last.success /\ tool_last.put_calls = 0)
       /\ tool_last.put_calls > 0
          => /\ tool_last.lookup = "found"
             /\ tool_last.put_target = tool_last.found_sys_id

\* C28 witness: resolve_incident, called with 32 upper-case characters,
\* found no incident of that number and sent no PUT.
C28_Witness ==
    /\ tool_last.op = "resolve_incident"
    /\ tool_last.incident_id = Repeat("A", SysIdLength)
    /\ tool_last.lookup = "empty"
    /\ tool_last.message = "Incident not found"
    /\ tool_last.put_calls = 0 /\ ~tool_last.success

\* The states one valid transition leads to from a state of S.
Successors(S) ==
    {t \in StateValues : \E s \in S : is_valid_state_transition(s, t)}

RECURSIVE Closure(_, _)
\* S and the states reachable from it in at most n valid transitions.
Closure(S, n) ==
    IF n = 0 THEN S ELSE Closure(S \cup Successors(S), n - 1)

\* The states reachable from s in one or more valid transitions.
ReachableFrom(s) == Closure(Successors({s}), Cardinality(StateValues))

\* C29: for the state an incident is in, every recommended next state is
\* a valid transition, the state itself is not, and In Progress is
\* reachable through valid transitions; a change that was made was not to
\* the state the incident was in.
C29_RecommendedValidNoSelfNoDeadEnd ==
    /\ inc_state \in IncidentStates
       => /\ \A t \in Values(get_next_recommended_states(inc_state)) :
                is_valid_state_transition(inc_state, t)
          /\ ~is_valid_state_transition(inc_state, inc_state)
          /\ Successors({inc_state}) # {}
          /\ "2" \in ReachableFrom(inc_state)
    /\ inc_last.from \in IncidentStates
       => /\ inc_last.to \in Values(inc_last.recommended) => inc_last.valid
          /\ inc_last.valid => inc_last.to # inc_last.from

\* C29 witness: a closed incident was reopened.
C29_Witness ==
    /\ inc_last.from = "7" /\ inc_last.to = "2" /\ inc_last.valid
    /\ inc_state = "2"
    /\ inc_changes > 1

\* The number a priority, impact or urgency value stands for.
Num(s) == CHOOSE n \in 1..5 : <<"1", "2", "3", "4", "5">>[n] = s

\* An impact or urgency value of 1..3.
ValidLevel(s) == s \in {"1", "2", "3"}

\* A field that is given: present and not empty.
Given(s) == s # None /\ s # ""

\* C30: calculate_priority gives impact + urgency - 1 for impact and
\* urgency both in 1..3, the same for the two taken in the other order, and
\* none if one of them is not in 1..3; validate_incident_data reports the
\* priority as inconsistent exactly when impact, urgency and priority are
\* all given and the priority is not what calculate_priority gives.
C30_PriorityIsImpactPlusUrgencyMinusOne ==
    data_last.op = "validate_incident_data"
    => LET impact == data_last.impact
           urgency == data_last.urgency
           priority == data_last.priority
           result == calculate_priority(impact, urgency)
       IN
       /\ (ValidLevel(impact) /\ ValidLevel(urgency))
          => /\ result \in {"1", "2", "3", "4", "5"}
             /\ Num(result) = Num(impact) + Num(urgency) - 1
       /\ result = calculate_priority(urgency, impact)
       /\ ~(ValidLevel(impact) /\ ValidLevel(urgency)) => result = None
       /\ (\E i \in DOMAIN data_last.issues :
              data_last.issues[i] = "Priority inconsistent")
          <=> /\ Given(impact) /\ Given(urgency) /\ Given(priority)
              /\ priority # result

\* C30 witness: incident data of medium impact and medium urgency with the
\* priority 4 was reported as inconsistent with the expected priority 3.
C30_Witness ==
    /\ data_last.op = "validate_incident_data"
    /\ data_last.impact = "2" /\ data_last.urgency = "2"
    /\ data_last.priority = "4"
    /\ data_last.expected_priority = "3"
    /\ data_last.issues = <<"Priority inconsistent">>

====
